---- MODULE Spec2Model ----
(***************************************************************************)
(* TropiPay MCP server: the lazily constructed client singleton, the tool  *)
(* handlers of tools/handlers.ts and the resource reader, as a state       *)
(* machine.  JavaScript values are modelled by strings: "undefined" is an   *)
(* unset environment variable or an absent argument, "null" is null, ""    *)
(* the empty string, " " a whitespace-only string and "0" a falsy value    *)
(* that is no string (0, false, NaN).                                      *)
(***************************************************************************)
EXTENDS Integers, Sequences, FiniteSets, TLC

VARIABLES
  tropiPayConfig,   \* the configuration record read once from the environment
  tropiPayClient,   \* the module-level singleton slot (NullClient when empty)
  constructed,      \* number of `new Tropipay(...)` evaluations so far
  access,           \* the last direct getTropiPayClient(config) call and its outcome
  firstRet,         \* the first handle any accessor call returned (NullClient: none yet)
  inv,              \* the tool invocations, one record per in-flight slot
  reply             \* the last resource read, prompt request or call-tool request to index.ts

vars == <<tropiPayConfig, tropiPayClient, constructed, access, firstRet, inv, reply>>

(***************************************************************************)
(* Bounds                                                                  *)
(***************************************************************************)
MaxConstructed == 3   \* cap on the construction counter
MaxInflight == 2      \* tool invocations that may be suspended at an await at once
MaxSupplied == 2      \* optional keys a caller adds to the required arguments
MaxAccounts == 2      \* accounts in an upstream listing

(***************************************************************************)
(* JavaScript truthiness of the modelled values                            *)
(***************************************************************************)
Falsy(v) == v \in { "undefined", "null", "", "0" }

(***************************************************************************)
(* Configuration                                                           *)
(***************************************************************************)
EnvValues == {"undefined", "", "sandbox", "production", "staging"}

\* getTropiPayConfig: TROPIPAY_ENVIRONMENT || 'sandbox', the rest copied as is
getTropiPayConfig(env) ==
  [ environment  |-> IF Falsy(env.TROPIPAY_ENVIRONMENT) THEN "sandbox"
                     ELSE env.TROPIPAY_ENVIRONMENT,
    baseUrl      |-> env.TROPIPAY_BASE_URL,
    clientId     |-> env.TROPIPAY_CLIENT_ID,
    clientSecret |-> env.TROPIPAY_CLIENT_SECRET ]

Environments ==
  [ TROPIPAY_ENVIRONMENT   : EnvValues,
    TROPIPAY_BASE_URL      : {"undefined", "", "https://custom"},
    TROPIPAY_CLIENT_ID     : {"undefined", "", "idA", "idB"},
    TROPIPAY_CLIENT_SECRET : {"undefined", "", "secA", "secB"} ]

\* every configuration record a caller can pass to the accessor
Configs == { getTropiPayConfig(e) : e \in Environments }

HasCredentials(config) == ~Falsy(config.clientId) /\ ~Falsy(config.clientSecret)

(***************************************************************************)
(* Client construction and the singleton accessor                          *)
(***************************************************************************)
NullClient ==
  [ oid |-> 0, clientId |-> "undefined", clientSecret |-> "undefined",
    customTropipayUrl |-> "undefined", serverMode |-> "undefined" ]

\* a faulty constructor that gives up only when both credentials are missing
createTropiPayClientEitherCredential(config, oid) ==
  IF Falsy(config.clientId) /\ Falsy(config.clientSecret)
  THEN NullClient
  ELSE IF ~Falsy(config.baseUrl)
       THEN [ oid |-> oid, clientId |-> config.clientId,
              clientSecret |-> config.clientSecret,
              customTropipayUrl |-> config.baseUrl, serverMode |-> "undefined" ]
       ELSE [ oid |-> oid, clientId |-> config.clientId,
              clientSecret |-> config.clientSecret,
              customTropipayUrl |-> "undefined",
              serverMode |-> IF config.environment = "production"
                             THEN "LIVE" ELSE "SANDBOX" ]

\* a faulty constructor that lets a production environment override the
\* custom base URL
createTropiPayClientEnvironmentFirst(config, oid) ==
  IF Falsy(config.clientId) \/ Falsy(config.clientSecret)
  THEN NullClient
  ELSE IF ~Falsy(config.baseUrl) /\ config.environment # "production"
       THEN [ oid |-> oid, clientId |-> config.clientId,
              clientSecret |-> config.clientSecret,
              customTropipayUrl |-> config.baseUrl, serverMode |-> "undefined" ]
       ELSE [ oid |-> oid, clientId |-> config.clientId,
              clientSecret |-> config.clientSecret,
              customTropipayUrl |-> "undefined",
              serverMode |-> IF config.environment = "production"
                             THEN "LIVE" ELSE "SANDBOX" ]

\* createTropiPayClient; oid is the identity the new object gets
createTropiPayClient(config, oid) ==
  IF Falsy(config.clientId) \/ Falsy(config.clientSecret)
  THEN NullClient
  ELSE IF ~Falsy(config.baseUrl)
       THEN [ oid |-> oid, clientId |-> config.clientId,
              clientSecret |-> config.clientSecret,
              customTropipayUrl |-> config.baseUrl, serverMode |-> "undefined" ]
       ELSE [ oid |-> oid, clientId |-> config.clientId,
              clientSecret |-> config.clientSecret,
              customTropipayUrl |-> "undefined",
              serverMode |-> IF config.environment = "production"
                             THEN "LIVE" ELSE "SANDBOX" ]

\* a faulty accessor that constructs on every call instead of reusing the slot
getTropiPayClientNoCache(config, slot, n) ==
  LET c == createTropiPayClient(config, n + 1) IN
  IF c.oid = 0
  THEN [ slot |-> c, constructed |-> n, threw |-> TRUE, ret |-> NullClient ]
  ELSE [ slot |-> c, constructed |-> n + 1, threw |-> FALSE, ret |-> c ]

\* a faulty accessor that validates the credentials before looking at the slot
getTropiPayClientCheckFirst(config, slot, n) ==
  IF ~HasCredentials(config)
  THEN [ slot |-> slot, constructed |-> n, threw |-> TRUE, ret |-> NullClient ]
  ELSE IF slot.oid = 0
       THEN LET c == createTropiPayClient(config, n + 1) IN
            [ slot |-> c, constructed |-> n + 1, threw |-> FALSE, ret |-> c ]
       ELSE [ slot |-> slot, constructed |-> n, threw |-> FALSE, ret |-> slot ]

\* a faulty accessor that memoizes a failed construction in the slot
getTropiPayClientStickyFailure(config, slot, n) ==
  IF slot.oid = 0
  THEN LET c == createTropiPayClient(config, n + 1) IN
       IF c.oid = 0
       THEN [ slot |-> [ NullClient EXCEPT !.oid = -1 ], constructed |-> n,
              threw |-> TRUE, ret |-> NullClient ]
       ELSE [ slot |-> c, constructed |-> n + 1, threw |-> FALSE, ret |-> c ]
  ELSE IF slot.oid = -1
  THEN [ slot |-> slot, constructed |-> n, threw |-> TRUE, ret |-> NullClient ]
  ELSE [ slot |-> slot, constructed |-> n, threw |-> FALSE, ret |-> slot ]

\* getTropiPayClient on a slot holding `slot` after n constructions:
\* the new slot, the new construction count, whether it threw the
\* 'TropiPay credentials not configured' error, and the handle returned
getTropiPayClient(config, slot, n) ==
  IF slot.oid = 0
  THEN LET c == createTropiPayClient(config, n + 1) IN
       IF c.oid = 0
       THEN [ slot |-> c, constructed |-> n, threw |-> TRUE, ret |-> NullClient ]
       ELSE [ slot |-> c, constructed |-> n + 1, threw |-> FALSE, ret |-> c ]
  ELSE [ slot |-> slot, constructed |-> n, threw |-> FALSE, ret |-> slot ]

NoAccess ==
  [ called |-> FALSE, config |-> getTropiPayConfig(
      [ TROPIPAY_ENVIRONMENT |-> "undefined", TROPIPAY_BASE_URL |-> "undefined",
        TROPIPAY_CLIENT_ID |-> "undefined", TROPIPAY_CLIENT_SECRET |-> "undefined" ]),
    cached |-> NullClient, threw |-> FALSE, ret |-> NullClient,
    failedBefore |-> FALSE ]


(***************************************************************************)
(* Tools, their arguments and the remote client's outcomes                 *)
(***************************************************************************)
\* the handlers of tools/handlers.ts; "create_paymentcard_v1" is the older
\* handleCreatePaymentCard kept in the same file (required: reference, ...)
\* and "get_accounts_list_v1" the older handleGetAccounts
Tools ==
  { "get_default_account_balance", "get_profile_data", "get_movement_list",
    "get_accounts_list", "get_accounts_list_v1", "list_deposit_accounts",
    "create_paymentcard",
    "create_paymentcard_v1", "test_connection", "list_paymentcards",
    "create_external_beneficiary", "create_internal_beneficiary",
    "create_crypto_beneficiary" }

PaymentCardTools == { "create_paymentcard", "create_paymentcard_v1" }

AccountsTools == { "get_accounts_list", "get_accounts_list_v1" }

BeneficiaryTools ==
  { "create_external_beneficiary", "create_internal_beneficiary",
    "create_crypto_beneficiary" }

\* the handlers that destructure their arguments map on entry
DestructuringTools == PaymentCardTools \cup BeneficiaryTools

\* the keys of the requiredFields object of handleCreatePaymentCard, in order
requiredFields(tool) ==
  CASE tool = "create_paymentcard" ->
         << "description", "concept", "amount", "currency" >>
    [] tool = "create_paymentcard_v1" ->
         << "reference", "concept", "amount", "currency" >>
    [] OTHER -> << >>

\* the `if (!a && !b) throw` checks of the beneficiary handlers, in order:
\* a check passes when one of its fields is truthy
requiredChecks(tool) ==
  CASE tool = "create_external_beneficiary" ->
         << <<"firstName">>, <<"lastName">>, <<"accountNumber">>, <<"currency">>,
            <<"countryDestinationId", "countryISO">> >>
    [] tool = "create_internal_beneficiary" ->
         << <<"alias">>, <<"searchValue">> >>
    [] tool = "create_crypto_beneficiary" ->
         << <<"firstName">>, <<"lastName">>, <<"accountNumber">>, <<"currency">>,
            <<"network">> >>
    [] OTHER -> << >>

Range(seq) == { seq[k] : k \in 1..Len(seq) }

\* the argument names a handler's validation reads
ArgFields(tool) ==
  Range(requiredFields(tool)) \cup
  UNION { Range(requiredChecks(tool)[k]) : k \in 1..Len(requiredChecks(tool)) }

\* an argument value: absent/undefined, null, empty string, whitespace-only
\* string, a falsy non-string (0, false), or a proper (truthy) value
ArgValues == { "undefined", "null", "", " ", "0", "val" }

AbsentArgs(tool) == [ f \in ArgFields(tool) |-> "undefined" ]

ArgsOf(tool) == [ ArgFields(tool) -> ArgValues ]

\* what the awaited client operation does: it returns a payload or throws.
\* Payloads: a regular result, an empty listing, null/undefined, an object
\* with a non-null error field, an object with code >= 400 and no error field.
Payloads == { "ok", "empty", "nullish", "error", "code400" }
\* Thrown values: an Error instance or any other value, each either one that
\* JSON.stringify can serialise or one it cannot (circular structure, BigInt)
Thrown == { "Error", "ErrorCircular", "value", "valueCircular" }
IsError(e) == e \in { "Error", "ErrorCircular" }
Serialisable(e) == e \in { "Error", "value" }
Outcomes == Payloads \cup Thrown

(***************************************************************************)
(* Required-field validation                                               *)
(***************************************************************************)
\* a faulty test that forgets to trim: value === ''
IsMissingValueNoTrim(v) == v \in { "undefined", "null", "" }

\* value === undefined || value === null ||
\*   (typeof value === 'string' && value.trim() === '')
IsMissingValue(v) == v \in { "undefined", "null", "", " " }

\* a faulty collection that stops at the first missing field
missingFieldsFirstOnly(tool, args) ==
  LET all == SelectSeq(requiredFields(tool), LAMBDA f : IsMissingValue(args[f])) IN
  IF all = << >> THEN << >> ELSE << Head(all) >>

\* the missingFields array of handleCreatePaymentCard
missingFields(tool, args) ==
  SelectSeq(requiredFields(tool), LAMBDA f : IsMissingValue(args[f]))

CheckFails(check, args) == \A k \in 1..Len(check) : Falsy(args[check[k]])

\* the index of the first `throw new Error('... is required')` a beneficiary
\* handler reaches, 0 when every check passes
firstFailedCheck(tool, args) ==
  LET failing == { k \in 1..Len(requiredChecks(tool)) :
                     CheckFails(requiredChecks(tool)[k], args) } IN
  IF failing = {} THEN 0
  ELSE CHOOSE k \in failing : \A j \in failing : k <= j

\* the fields the validation of a handler names in its response, in order
\* (<< >> when the validation passes)
reportedMissing(tool, args) ==
  IF tool \in PaymentCardTools THEN missingFields(tool, args)
  ELSE IF tool \in BeneficiaryTools /\ firstFailedCheck(tool, args) # 0
       THEN requiredChecks(tool)[firstFailedCheck(tool, args)]
       ELSE << >>

(***************************************************************************)
(* Responses.  A text response is abstracted to its leading marker         *)
(* ("FAIL" for the cross mark, "OK" for the check mark, "INFO" for the     *)
(* data emojis), the headline that follows it, and the required fields it  *)
(* enumerates; thrown is TRUE when the handler raised instead of returning *)
(***************************************************************************)
NoResp ==
  [ thrown |-> FALSE, marker |-> "", headline |-> "", listed |-> << >> ]

Raised == [ thrown |-> TRUE, marker |-> "", headline |-> "", listed |-> << >> ]

Text(marker, headline, listed) ==
  [ thrown |-> FALSE, marker |-> marker, headline |-> headline, listed |-> listed ]

\* the first line of each handler's failure text
FailureHeadline(tool) ==
  CASE tool = "get_default_account_balance" -> "Failed to get balance"
    [] tool = "get_profile_data" -> "Failed to get profile"
    [] tool = "get_movement_list" -> "Failed to get movements"
    [] tool \in AccountsTools -> "Failed to retrieve TropiPay accounts"
    [] tool = "list_deposit_accounts" -> "Failed to retrieve TropiPay deposit accounts"
    [] tool \in PaymentCardTools -> "Failed to create payment card"
    [] tool = "test_connection" -> "Connection test failed"
    [] tool = "list_paymentcards" -> "Failed to list payment cards"
    [] tool = "create_external_beneficiary" ->
         "Failed to create external bank account beneficiary"
    [] tool = "create_internal_beneficiary" ->
         "Failed to create internal TropiPay beneficiary"
    [] tool = "create_crypto_beneficiary" ->
         "Failed to create crypto wallet beneficiary"

\* does the catch block of the handler evaluate JSON.stringify(error)?
\* (the others print error.message, or 'Unknown error' for a non-Error)
CatchStringifies(tool, e) ==
  \/ tool \in { "create_paymentcard", "list_paymentcards" }
  \/ tool \in BeneficiaryTools /\ ~IsError(e)

\* the catch block of a handler, entered with the caught value e; listed are
\* the fields the caught Error's message names.  JSON.stringify raises on a
\* value it cannot serialise, and that TypeError leaves the handler.
catchBlock(tool, e, listed) ==
  IF CatchStringifies(tool, e) /\ ~Serialisable(e)
  THEN Raised
  ELSE Text("FAIL", FailureHeadline(tool), listed)

\* the handlers that dereference the awaited result without a null guard
DereferencesResult(tool) ==
  tool \in { "get_profile_data", "list_deposit_accounts", "create_paymentcard" }
           \cup BeneficiaryTools

\* a faulty continuation that never inspects the returned payload
onReturnUnchecked(tool, payload) ==
  IF payload = "nullish" /\ DereferencesResult(tool)
  THEN catchBlock(tool, "Error", << >>)
  ELSE Text("OK", "Created Successfully", << >>)

\* the rest of the try block once the awaited client operation returned
onReturn(tool, payload) ==
  IF payload = "nullish" /\ DereferencesResult(tool)
  THEN catchBlock(tool, "Error", << >>)            \* TypeError inside the try
  ELSE IF tool \in BeneficiaryTools
  THEN IF payload \in { "error", "code400" }       \* result.error || result.code >= 400
       THEN Text("FAIL", FailureHeadline(tool), << >>)
       ELSE Text("OK", "Created Successfully", << >>)
  ELSE IF tool = "get_movement_list"
  THEN IF payload = "ok"                           \* !movements || !movements.rows || length === 0
       THEN Text("INFO", "Account Movements Data", << >>)
       ELSE Text("INFO", "No movements found", << >>)
  ELSE IF tool \in AccountsTools
  THEN IF payload = "ok"                           \* !Array.isArray(accountsData) || length === 0
       THEN Text("INFO", "TropiPay Accounts Data", << >>)
       ELSE Text("INFO", "No TropiPay accounts found", << >>)
  ELSE IF tool = "list_deposit_accounts"
  THEN IF payload = "empty"                        \* depositAccountsData?.rows?.length === 0
       THEN Text("INFO", "No deposit accounts found", << >>)
       ELSE Text("INFO", "TropiPay Deposit Accounts Data", << >>)
  ELSE IF tool = "get_default_account_balance"
  THEN Text("INFO", "Current Default Account Balance", << >>)
  ELSE IF tool = "get_profile_data"
  THEN Text("INFO", "Profile Information", << >>)
  ELSE IF tool \in PaymentCardTools
  THEN Text("OK", "Payment Card Created Successfully", << >>)
  ELSE IF tool = "test_connection"
  THEN Text("OK", "TropiPay Connection Test Successful", << >>)
  ELSE Text("OK", "Payment Cards List Successful", << >>)

\* the handler from the point where the awaited client operation settles
handlerResume(tool, outcome) ==
  IF outcome \in Thrown
  THEN catchBlock(tool, outcome, << >>)
  ELSE onReturn(tool, outcome)

\* the response to a failed required-field validation
validationResponse(tool, listed) ==
  IF tool \in PaymentCardTools
  THEN Text("FAIL", "Missing Required Fields for Payment Card Creation", listed)
  ELSE catchBlock(tool, "Error", listed)     \* throw new Error('X is required')

Finished(resp, slot, n) ==
  [ pc |-> "done", resp |-> resp, calls |-> 0, slot |-> slot, constructed |-> n,
    client |-> 0 ]

Suspended(g) ==
  [ pc |-> "awaiting", resp |-> NoResp, calls |-> 1, slot |-> g.slot,
    constructed |-> g.constructed, client |-> g.ret.oid ]

\* a faulty handler that issues the client operation before validating
handlerSyncCallFirst(tool, hasArgs, args, config, slot, n) ==
  LET g == getTropiPayClient(config, slot, n) IN
  IF g.threw
  THEN Finished(IF tool = "list_paymentcards" THEN Raised
                ELSE catchBlock(tool, "Error", << >>), slot, n)
  ELSE IF hasArgs /\ reportedMissing(tool, args) # << >>
  THEN [ Finished(validationResponse(tool, reportedMissing(tool, args)),
                  g.slot, g.constructed) EXCEPT !.calls = 1 ]
  ELSE Suspended(g)

\* a handler from its entry to its first await (or to its return, when it
\* never reaches the client operation), run on the singleton slot `slot`
handlerSync(tool, hasArgs, args, config, slot, n) ==
  LET g == getTropiPayClient(config, slot, n) IN
  IF tool = "list_paymentcards"
  THEN \* const client = context.getTropiPayClient() precedes the try
       IF g.threw THEN Finished(Raised, g.slot, g.constructed) ELSE Suspended(g)
  ELSE IF tool \in DestructuringTools /\ ~hasArgs
  THEN \* destructuring undefined: TypeError inside the try
       Finished(catchBlock(tool, "Error", << >>), slot, n)
  ELSE IF reportedMissing(tool, args) # << >>
  THEN Finished(validationResponse(tool, reportedMissing(tool, args)), slot, n)
  ELSE IF g.threw
  THEN Finished(catchBlock(tool, "Error", << >>), g.slot, g.constructed)
  ELSE Suspended(g)

(***************************************************************************)
(* The request a handler hands to the remote client.  Numbers and booleans *)
(* the handlers write as literals are modelled by their spelling ("21",    *)
(* "false"); a key whose value is undefined is a key that is not sent.     *)
(***************************************************************************)
\* args.f: reading a key the arguments map does not have gives undefined
Arg(args, f) == IF f \in DOMAIN args THEN args[f] ELSE "undefined"

\* new Date().toISOString().split('T')[0]: the UTC calendar date of the call
ISODateOfNow == "today"

\* the keys of paymentCardData that are copied from the arguments as they are
PaymentCardCopied == { "reference", "concept", "amount", "currency" }

\* the keys of paymentCardData filled with `x !== undefined ? x : <default>`
paymentCardDefault(f) ==
  CASE f = "singleUse" -> "false"
    [] f = "description" -> ""
    [] f = "favorite" -> "false"
    [] f = "expirationDays" -> "0"
    [] f = "reasonId" -> "21"
    [] f = "lang" -> "es"
    [] f = "urlSuccess" -> ""
    [] f = "urlFailed" -> ""
    [] f = "urlNotification" -> ""
    [] f = "serviceDate" -> ISODateOfNow
    [] f = "accountId" -> "null"

PaymentCardDefaulted ==
  { "singleUse", "description", "favorite", "expirationDays", "reasonId", "lang",
    "urlSuccess", "urlFailed", "urlNotification", "serviceDate", "accountId" }

\* the keys the older handleCreatePaymentCard, and the create_paymentcard
\* case of index.ts, add with `...(x && { x })`
PaymentCardSpread ==
  { "description", "favorite", "singleUse", "expirationDays", "reasonId", "lang",
    "urlSuccess", "urlFailed", "urlNotification", "serviceDate", "directPayment" }

\* paymentCardData of handleCreatePaymentCard and of its older variant
paymentCardData(tool, args) ==
  IF tool = "create_paymentcard"
  THEN [ f \in PaymentCardCopied \cup PaymentCardDefaulted |->
           IF f \in PaymentCardCopied THEN Arg(args, f)
           ELSE IF Arg(args, f) # "undefined" THEN Arg(args, f)
           ELSE paymentCardDefault(f) ]
  ELSE [ f \in PaymentCardCopied \cup PaymentCardSpread |->
           IF f \in PaymentCardCopied THEN Arg(args, f)
           ELSE IF Falsy(Arg(args, f)) THEN "undefined"
           ELSE Arg(args, f) ]

\* a faulty movements request that forwards the caller's limit even when it
\* is absent
movementsRequestNoDefault(hasArgs, args) ==
  [ limit  |-> IF hasArgs /\ "limit" \in DOMAIN args THEN args["limit"] ELSE 0,
    offset |-> IF hasArgs /\ "offset" \in DOMAIN args /\ args["offset"] # 0
               THEN args["offset"] ELSE 0 ]

\* the two parameters of client.movements(limit, offset):
\* (args?.limit as number) || 10 and (args?.offset as number) || 0, where a
\* number is falsy exactly when it is 0 (limit and offset are integers here)
movementsRequest(hasArgs, args) ==
  [ limit  |-> IF hasArgs /\ "limit" \in DOMAIN args /\ args["limit"] # 0
               THEN args["limit"] ELSE 10,
    offset |-> IF hasArgs /\ "offset" \in DOMAIN args /\ args["offset"] # 0
               THEN args["offset"] ELSE 0 ]

\* x || undefined
OrUndefined(v) == IF Falsy(v) THEN "undefined" ELSE v

\* x || d
OrDefault(v, d) == IF Falsy(v) THEN d ELSE v

\* the keys of depositAccountData the handler sets to a literal
classification(tool) ==
  CASE tool = "create_external_beneficiary" ->
         [ beneficiaryType |-> "2", type |-> "7", paymentType |-> "2" ]
    [] tool = "create_internal_beneficiary" ->
         [ beneficiaryType |-> "1", type |-> "9" ]
    [] tool = "create_crypto_beneficiary" ->
         [ beneficiaryType |-> "3", type |-> "12" ]

\* the keys copied from the arguments as they are
BeneficiaryCopied(tool) ==
  CASE tool = "create_external_beneficiary" ->
         { "firstName", "lastName", "accountNumber", "currency" }
    [] tool = "create_internal_beneficiary" -> { "alias", "searchValue" }
    [] tool = "create_crypto_beneficiary" ->
         { "firstName", "lastName", "accountNumber", "currency", "network" }

\* the keys filled with `x || undefined`
BeneficiaryOptional(tool) ==
  CASE tool = "create_external_beneficiary" ->
         { "countryDestinationId", "countryISO", "alias", "email", "bankName",
           "swift", "documentId", "documentNumber", "documentTypeId",
           "documentExpirationDate", "phone", "address", "city", "province",
           "postalCode", "routingNumber", "correspondent" }
    [] tool = "create_internal_beneficiary" ->
         { "firstName", "lastName", "accountNumber" }
    [] tool = "create_crypto_beneficiary" -> { "alias" }

\* the keys filled with `x || <default>`; email || searchValue of the
\* internal handler is resolved in depositAccountData
beneficiaryDefault(tool, f) ==
  CASE f = "userRelationTypeId" -> "3"
    [] f = "state" -> "0"
    [] f = "searchBy" -> "1"

BeneficiaryDefaulted(tool) ==
  IF tool = "create_internal_beneficiary"
  THEN { "searchBy", "userRelationTypeId", "state" }
  ELSE { "userRelationTypeId", "state" }

\* a faulty payload in which the caller's arguments override the literals
depositAccountDataArgsOverride(tool, args) ==
  LET fixed == classification(tool) IN
  [ f \in DOMAIN fixed \cup BeneficiaryCopied(tool) \cup BeneficiaryOptional(tool)
           \cup BeneficiaryDefaulted(tool)
           \cup (IF tool = "create_internal_beneficiary" THEN { "email" } ELSE {}) |->
      IF f \in DOMAIN fixed
      THEN (IF Arg(args, f) # "undefined" THEN Arg(args, f) ELSE fixed[f])
      ELSE IF f \in BeneficiaryCopied(tool) THEN Arg(args, f)
      ELSE IF f \in BeneficiaryOptional(tool) THEN OrUndefined(Arg(args, f))
      ELSE IF f \in BeneficiaryDefaulted(tool)
      THEN OrDefault(Arg(args, f), beneficiaryDefault(tool, f))
      ELSE OrDefault(Arg(args, f), Arg(args, "searchValue")) ]

\* depositAccountData of the three beneficiary handlers
depositAccountData(tool, args) ==
  LET fixed == classification(tool) IN
  [ f \in DOMAIN fixed \cup BeneficiaryCopied(tool) \cup BeneficiaryOptional(tool)
           \cup BeneficiaryDefaulted(tool)
           \cup (IF tool = "create_internal_beneficiary" THEN { "email" } ELSE {}) |->
      IF f \in DOMAIN fixed THEN fixed[f]
      ELSE IF f \in BeneficiaryCopied(tool) THEN Arg(args, f)
      ELSE IF f \in BeneficiaryOptional(tool) THEN OrUndefined(Arg(args, f))
      ELSE IF f \in BeneficiaryDefaulted(tool)
      THEN OrDefault(Arg(args, f), beneficiaryDefault(tool, f))
      ELSE OrDefault(Arg(args, f), Arg(args, "searchValue")) ]  \* email || searchValue

\* the client operation each handler awaits
clientOperation(tool) ==
  CASE tool \in { "get_default_account_balance", "test_connection" } -> "getBalance"
    [] tool = "get_profile_data" -> "profile"
    [] tool = "get_movement_list" -> "movements"
    [] tool \in AccountsTools -> "accounts.list"
    [] tool = "list_deposit_accounts" -> "depositAccounts.list"
    [] tool \in PaymentCardTools -> "paymentCards.create"
    [] tool = "list_paymentcards" -> "paymentCards.list"
    [] tool \in BeneficiaryTools -> "depositAccounts.create"

NoRequest == [ op |-> "", data |-> << >> ]

\* the operation a handler invokes on the client and what it passes to it
clientRequest(tool, hasArgs, args) ==
  [ op   |-> clientOperation(tool),
    data |-> IF tool \in PaymentCardTools THEN paymentCardData(tool, args)
             ELSE IF tool \in BeneficiaryTools THEN depositAccountData(tool, args)
             ELSE IF tool = "get_movement_list" THEN movementsRequest(hasArgs, args)
             ELSE << >> ]

(***************************************************************************)
(* Tool invocations                                                        *)
(***************************************************************************)
Slots == 1..MaxInflight

\* the JSON block of a response that lists records: the upstream records it
\* was made from and the keys of each object in the block (none: no block)
NoBody == [ upstream |-> << >>, json |-> << >> ]

IdleInv ==
  [ pc |-> "idle", tool |-> "", hasArgs |-> FALSE, args |-> AbsentArgs(""),
    client |-> 0, calls |-> 0, request |-> NoRequest, outcome |-> "",
    resp |-> NoResp, body |-> NoBody ]

\* a call-tool request reaches the handler of `tool`, which runs to its first
\* await; context.getTropiPayClient() is getTropiPayClient(tropiPayConfig)
Invoke(i, tool, hasArgs, args) ==
  /\ inv[i].pc \in { "idle", "done" }
  /\ constructed < MaxConstructed
  /\ LET r == handlerSync(tool, hasArgs, args, tropiPayConfig, tropiPayClient,
                          constructed) IN
       /\ tropiPayClient' = r.slot
       /\ constructed' = r.constructed
       /\ inv' = [ inv EXCEPT ![i] =
            [ pc |-> r.pc, tool |-> tool, hasArgs |-> hasArgs, args |-> args,
              client |-> r.client, calls |-> r.calls,
              request |-> IF r.calls > 0 THEN clientRequest(tool, hasArgs, args)
                          ELSE NoRequest,
              outcome |-> "", resp |-> r.resp, body |-> NoBody ] ]
  /\ UNCHANGED <<tropiPayConfig, access, firstRet, reply>>

\* a faulty continuation whose catch block re-issues the operation once
resumePointRetrying(tool, outcome, calls) ==
  IF outcome \in Thrown /\ calls < 2
  THEN [ pc |-> "awaiting", calls |-> calls + 1 ]
  ELSE [ pc |-> "done", calls |-> calls ]

\* where a handler stands once its awaited operation settled, and how many
\* operations it has issued by then: every handler awaits one operation, and
\* both the rest of its try block and its catch block run to a return
resumePoint(tool, outcome, calls) == [ pc |-> "done", calls |-> calls ]

\* the awaited client operation of invocation i settles and the handler
\* runs to its end
RemoteSettles(i, outcome) ==
  /\ inv[i].pc = "awaiting"
  /\ LET p == resumePoint(inv[i].tool, outcome, inv[i].calls) IN
       inv' = [ inv EXCEPT ![i].pc = p.pc, ![i].calls = p.calls,
                           ![i].outcome = outcome,
                           ![i].resp = IF p.pc = "done"
                                       THEN handlerResume(inv[i].tool, outcome)
                                       ELSE NoResp ]
  /\ UNCHANGED <<tropiPayConfig, tropiPayClient, constructed, access, firstRet, reply>>

\* a read of tropipay://status: the resource handler asks for the client
\* handle inside its own try/catch and answers either way
ReadStatus ==
  /\ constructed < MaxConstructed
  /\ LET g == getTropiPayClient(tropiPayConfig, tropiPayClient, constructed) IN
       /\ tropiPayClient' = g.slot
       /\ constructed' = g.constructed
  /\ UNCHANGED <<tropiPayConfig, access, firstRet, inv, reply>>

(***************************************************************************)
(* Resource reads, prompt requests and the dispatcher of the single-file   *)
(* server (index.ts).  "modular" is the server built from the handler      *)
(* modules (handleResourceRead, handlePrompt), "monolith" the one of       *)
(* index.ts, which carries its own copies of the handlers.                 *)
(***************************************************************************)
Servers == { "modular", "monolith" }

\* the case labels of the resource switch
ResourceCases(server) ==
  IF server = "monolith"
  THEN { "config", "status", "movement-types", "movement-states",
         "account-types", "account-states" }
  ELSE { "config", "status", "movement-types", "movement-states",
         "account-states" }

\* the case labels of the prompt switch
PromptCases(server) ==
  IF server = "monolith"
  THEN { "tropipay_setup_guide", "tropipay_api_overview",
         "tropipay_movements_schema", "tropipay_accounts_schema" }
  ELSE { "tropipay_movements_schema", "tropipay_accounts_schema" }

\* the case labels of the tool switch of index.ts
MonolithToolCases ==
  { "get_account_balance", "get_profile_data", "get_movement_list",
    "get_accounts", "list_deposit_accounts", "create_paymentcard",
    "test_connection" }

\* the names requests are made with: every case label and some others
ResourceNames == ResourceCases("monolith") \cup { "", "balance" }
PromptNames == PromptCases("monolith") \cup { "", "tropipay_refunds" }
UnknownToolNames ==
  { "", "transfer_funds", "get_default_account_balance", "list_paymentcards" }

\* a resource URI of the form tropipay://<authority>, tropipay:///<segment>
\* or tropipay://<authority>/<segment>
Uri(authority, segment) == [ authority |-> authority, segment |-> segment ]

NoUri == Uri("", "")

\* the URIs resource reads are made with: tropipay://<name> and
\* tropipay:///<name> for every name
ResourceUris ==
  { Uri(name, "") : name \in ResourceNames } \cup
  { Uri("", name) : name \in ResourceNames }

\* new URL(uri).pathname.replace(/^\//, ''): tropipay is no special scheme,
\* so what follows "//" up to the next "/" is the host of the URL and the
\* pathname is what comes after the host, the empty string when nothing does
resourceOf(uri) == uri.segment

\* the uri entries of the list-resources answer
ListedResourceUris(server) ==
  IF server = "monolith"
  THEN { Uri(name, "") : name \in { "config", "status", "movement-types",
                                     "movement-states", "account-types",
                                     "account-states" } }
  ELSE { Uri(name, "") : name \in { "config", "status", "movement-types",
                                     "movement-states", "account-states" } }

\* the name entries of the list-prompts answer
ListedPrompts(server) ==
  IF server = "monolith"
  THEN { "tropipay_setup_guide", "tropipay_api_overview",
         "tropipay_movements_schema", "tropipay_accounts_schema" }
  ELSE { "tropipay_movements_schema", "tropipay_accounts_schema" }

\* the name entries of the list-tools answer of index.ts
MonolithListedTools ==
  { "get_account_balance", "get_profile_data", "get_movement_list",
    "get_accounts", "list_deposit_accounts", "create_paymentcard",
    "test_connection" }

NoDoc == [ environment |-> "" ]

\* clientId.substring(0, 8) followed by '...', or 'Not configured'
clientIdShown(clientId) ==
  IF Falsy(clientId) THEN "Not configured"
  ELSE SubSeq(clientId, 1, IF Len(clientId) < 8 THEN Len(clientId) ELSE 8) \o "..."

\* a faulty document that prints the whole client id
configDocumentFullId(server, config, client) ==
  [ environment |-> config.environment, baseUrl |-> config.baseUrl,
    clientId |-> config.clientId, clientInitialized |-> client.oid # 0 ]

\* a faulty document whose flag tells whether credentials are configured
configDocumentFlagFromConfig(server, config, client) ==
  [ environment |-> config.environment, baseUrl |-> config.baseUrl,
    clientId |-> clientIdShown(config.clientId),
    clientInitialized |-> HasCredentials(config) ]

\* the object the config case serialises: index.ts reports whether the
\* singleton slot is filled, handleResourceRead whether both credentials
\* are configured and a base URL derived from the environment
configDocument(server, config, client) ==
  IF server = "monolith"
  THEN [ environment |-> config.environment,
         baseUrl |-> config.baseUrl,
         hasCredentials |-> ~Falsy(config.clientId) /\ ~Falsy(config.clientSecret),
         clientId |-> clientIdShown(config.clientId),
         libraryVersion |-> "@yosle/tropipayjs v0.2.1",
         clientInitialized |-> client.oid # 0 ]
  ELSE [ environment |-> config.environment,
         baseUrl |-> IF ~Falsy(config.baseUrl) THEN config.baseUrl
                     ELSE IF config.environment = "production"
                     THEN "https://www.tropipay.com/api/v2"
                     ELSE "https://tropipay-dev.herokuapp.com/api/v2",
         clientId |-> clientIdShown(config.clientId),
         libraryVersion |-> "@yosle/tropipayjs v0.2.1",
         clientInitialized |-> ~Falsy(config.clientId) /\ ~Falsy(config.clientSecret) ]

NoReply ==
  [ kind |-> "none", server |-> "", name |-> "", thrown |-> FALSE, text |-> "",
    uri |-> NoUri, doc |-> NoDoc, args |-> << >> ]

Answered(kind, server, name, text) ==
  [ kind |-> kind, server |-> server, name |-> name, thrown |-> FALSE,
    text |-> text, uri |-> NoUri, doc |-> NoDoc, args |-> << >> ]

\* the request handler raised `new Error(message)` and nothing caught it
Rejected(kind, server, name, message) ==
  [ kind |-> kind, server |-> server, name |-> name, thrown |-> TRUE,
    text |-> message, uri |-> NoUri, doc |-> NoDoc, args |-> << >> ]

\* the resource switch; threw tells whether getTropiPayClient threw in the
\* try block of the status case
resourceRead(server, resource, threw) ==
  IF resource = "status"
  THEN Answered("resource", server, resource,
                IF threw THEN "json status error" ELSE "json status connected")
  ELSE IF resource \in ResourceCases(server)
  THEN Answered("resource", server, resource, "json")
  ELSE Rejected("resource", server, resource,
                IF server = "monolith" THEN "Resource not found"
                ELSE "Unknown resource")

\* the prompt switch
handlePrompt(server, name) ==
  IF name \in PromptCases(server)
  THEN Answered("prompt", server, name, "messages")
  ELSE Rejected("prompt", server, name, "Unknown prompt")

\* a faulty dispatcher that looks at the name before fetching the client
dispatchUnknownNameFirst(name, threw) ==
  Answered("tool", "monolith", name, "Unknown tool")

\* the dispatcher of index.ts called with a name that is none of its case
\* labels: the client is fetched first, then the default case throws; the
\* catch of the dispatcher prints the message of whichever error was thrown
dispatchUnknown(name, threw) ==
  IF threw
  THEN Answered("tool", "monolith", name, "TropiPay credentials not configured")
  ELSE Answered("tool", "monolith", name, "Unknown tool")

\* the handler of tools/handlers.ts of which a case of index.ts carries a copy
MonolithHandler(name) ==
  CASE name = "get_account_balance" -> "get_default_account_balance"
    [] name = "get_accounts" -> "get_accounts_list_v1"
    [] name = "create_paymentcard" -> "create_paymentcard_v1"
    [] OTHER -> name

\* the arguments maps of call-tool requests to index.ts; a request without
\* arguments is one whose keys are all undefined (arguments || {})
MonolithArgs(name) ==
  IF name = "create_paymentcard"
  THEN [ ArgFields("create_paymentcard_v1") -> { "undefined", "val" } ]
  ELSE { AbsentArgs(MonolithHandler(name)) }

\* a faulty dispatcher that fetches the client inside each case, after the
\* validation of the case
dispatchMonolithClientLast(name, args, threw, outcome) ==
  IF name \notin MonolithToolCases
  THEN Answered("tool", "monolith", name, "Unknown tool")
  ELSE IF missingFields(MonolithHandler(name), args) # << >>
  THEN Answered("tool", "monolith", name,
                "Missing Required Fields for Payment Card Creation")
  ELSE IF threw
  THEN Answered("tool", "monolith", name, "TropiPay credentials not configured")
  ELSE Answered("tool", "monolith", name,
                handlerResume(MonolithHandler(name), outcome).headline)

\* the call-tool dispatcher of index.ts: the client is fetched before the
\* switch on the name; a case validates (create_paymentcard), awaits its
\* client operation, which settles with `outcome`, and returns a text
dispatchMonolith(name, args, threw, outcome) ==
  IF threw \/ name \notin MonolithToolCases
  THEN dispatchUnknown(name, threw)
  ELSE IF missingFields(MonolithHandler(name), args) # << >>
  THEN Answered("tool", "monolith", name,
                "Missing Required Fields for Payment Card Creation")
  ELSE Answered("tool", "monolith", name,
                handlerResume(MonolithHandler(name), outcome).headline)

\* a call-tool request to index.ts that names one of its case labels,
\* followed to the return of the dispatcher
CallMonolithTool(name, args, outcome) ==
  /\ constructed < MaxConstructed
  /\ name \in MonolithToolCases
  /\ LET g == getTropiPayClient(tropiPayConfig, tropiPayClient, constructed) IN
       /\ tropiPayClient' = g.slot
       /\ constructed' = g.constructed
       /\ reply' = [ dispatchMonolith(name, args, g.threw, outcome) EXCEPT
                       !.args = args ]
  /\ UNCHANGED <<tropiPayConfig, access, firstRet, inv>>

\* a faulty reader whose config case stores the base URL it derived into the
\* shared configuration record
ReadResourceStoringBaseUrl(server, uri) ==
  /\ constructed < MaxConstructed
  /\ LET resource == resourceOf(uri)
         g == IF resource = "status"
              THEN getTropiPayClient(tropiPayConfig, tropiPayClient, constructed)
              ELSE [ slot |-> tropiPayClient, constructed |-> constructed,
                     threw |-> FALSE, ret |-> tropiPayClient ]
         doc == configDocument(server, tropiPayConfig, tropiPayClient) IN
       /\ tropiPayClient' = g.slot
       /\ constructed' = g.constructed
       /\ reply' = [ resourceRead(server, resource, g.threw) EXCEPT
                       !.uri = uri,
                       !.doc = IF resource = "config" THEN doc ELSE NoDoc ]
       /\ tropiPayConfig' = IF resource = "config"
                            THEN [ tropiPayConfig EXCEPT !.baseUrl = doc.baseUrl ]
                            ELSE tropiPayConfig
  /\ UNCHANGED <<access, firstRet, inv>>

\* a read-resource request for `uri`
ReadResource(server, uri) ==
  /\ constructed < MaxConstructed
  /\ LET resource == resourceOf(uri)
         g == IF resource = "status"
              THEN getTropiPayClient(tropiPayConfig, tropiPayClient, constructed)
              ELSE [ slot |-> tropiPayClient, constructed |-> constructed,
                     threw |-> FALSE, ret |-> tropiPayClient ] IN
       /\ tropiPayClient' = g.slot
       /\ constructed' = g.constructed
       /\ reply' = [ resourceRead(server, resource, g.threw) EXCEPT
                       !.uri = uri,
                       !.doc = IF resource = "config"
                               THEN configDocument(server, tropiPayConfig,
                                                   tropiPayClient)
                               ELSE NoDoc ]
  /\ UNCHANGED <<tropiPayConfig, access, firstRet, inv>>

\* a get-prompt request
GetPrompt(server, name) ==
  /\ reply' = handlePrompt(server, name)
  /\ UNCHANGED <<tropiPayConfig, tropiPayClient, constructed, access, firstRet, inv>>

\* a call-tool request to index.ts whose name is none of its case labels
CallUnknownTool(name) ==
  /\ constructed < MaxConstructed
  /\ name \notin MonolithToolCases
  /\ LET g == getTropiPayClient(tropiPayConfig, tropiPayClient, constructed) IN
       /\ tropiPayClient' = g.slot
       /\ constructed' = g.constructed
       /\ reply' = dispatchUnknown(name, g.threw)
  /\ UNCHANGED <<tropiPayConfig, access, firstRet, inv>>

(***************************************************************************)
(* The client accessor called directly, with any configuration record      *)
(***************************************************************************)
AccessClient(config) ==
  /\ constructed < MaxConstructed
  /\ LET g == getTropiPayClient(config, tropiPayClient, constructed) IN
       /\ tropiPayClient' = g.slot
       /\ constructed' = g.constructed
       /\ access' = [ called |-> TRUE, config |-> config, cached |-> tropiPayClient,
                      threw |-> g.threw, ret |-> g.ret,
                      failedBefore |-> access.failedBefore \/ access.threw ]
       /\ firstRet' = IF firstRet.oid = 0 /\ ~g.threw THEN g.ret ELSE firstRet
  /\ UNCHANGED <<tropiPayConfig, inv, reply>>

InitClient ==
  /\ tropiPayConfig = NoAccess.config
  /\ tropiPayClient = NullClient
  /\ constructed = 0
  /\ access = NoAccess
  /\ firstRet = NullClient
  /\ inv = [ i \in Slots |-> IdleInv ]
  /\ reply = NoReply

NextClient == \E config \in Configs : AccessClient(config)

SpecClient == InitClient /\ [][NextClient]_vars

(***************************************************************************)
(* The server process: configuration read once at start, requests served   *)
(* from then on.  A handler runs without interruption between two awaits,  *)
(* so requests interleave only where a handler awaits the remote client.   *)
(***************************************************************************)
\* the environments the process is started in
ProcessEnvs ==
  { e \in Environments :
      /\ e.TROPIPAY_ENVIRONMENT = "undefined"
      /\ e.TROPIPAY_BASE_URL = "undefined"
      /\ e.TROPIPAY_CLIENT_ID \in { "undefined", "idA" }
      /\ e.TROPIPAY_CLIENT_SECRET = "secA" }

Init ==
  /\ tropiPayConfig \in { getTropiPayConfig(e) : e \in ProcessEnvs }
  /\ tropiPayClient = NullClient
  /\ constructed = 0
  /\ access = NoAccess
  /\ firstRet = NullClient
  /\ inv = [ i \in Slots |-> IdleInv ]
  /\ reply = NoReply

\* the requests of the interleaved runs: one tool of each shape of handler
\* (client fetched before the try, inside it, after a validation), with a
\* complete arguments map or none at all
ConcurrentTools ==
  { "get_default_account_balance", "get_movement_list", "test_connection",
    "list_paymentcards", "create_paymentcard", "create_internal_beneficiary" }

ConcurrentOutcomes == { "ok", "error", "Error" }

Next ==
  \/ \E i \in Slots, tool \in ConcurrentTools :
       \/ Invoke(i, tool, TRUE, [ f \in ArgFields(tool) |-> "val" ])
       \/ Invoke(i, tool, FALSE, AbsentArgs(tool))
  \/ \E i \in Slots, outcome \in ConcurrentOutcomes : RemoteSettles(i, outcome)
  \/ ReadStatus

Spec == Init /\ [][Next]_vars

\* one invocation of any tool with any arguments map and any outcome of the
\* client operation, on a process that may have served a status read before
NextHandlers ==
  \/ /\ inv[1].pc = "idle"
     /\ \E tool \in Tools : \E args \in ArgsOf(tool) : Invoke(1, tool, TRUE, args)
  \/ /\ inv[1].pc = "idle"
     /\ \E tool \in Tools : Invoke(1, tool, FALSE, AbsentArgs(tool))
  \/ \E outcome \in Outcomes : RemoteSettles(1, outcome)
  \/ inv[1].pc = "idle" /\ ReadStatus

SpecHandlers == Init /\ [][NextHandlers]_vars

\* the required array of each tool's inputSchema (definitions.ts)
SchemaRequired(tool) ==
  CASE tool \in PaymentCardTools -> { "concept", "amount", "currency" }
    [] tool = "create_external_beneficiary" ->
         { "firstName", "lastName", "accountNumber", "currency" }
    [] tool = "create_internal_beneficiary" -> { "alias", "searchValue" }
    [] tool = "create_crypto_beneficiary" ->
         { "firstName", "lastName", "accountNumber", "currency", "network" }
    [] OTHER -> {}

ClassificationKeys == { "beneficiaryType", "type", "paymentType" }

\* the keys a caller may add to the required ones: every key the handler
\* destructures and, for a beneficiary, the classification keys
SuppliableKeys(tool) ==
  ( IF tool = "create_paymentcard"
    THEN PaymentCardCopied \cup PaymentCardDefaulted
    ELSE IF tool = "create_paymentcard_v1"
    THEN PaymentCardCopied \cup PaymentCardSpread
    ELSE IF tool = "create_internal_beneficiary"
    THEN BeneficiaryCopied(tool) \cup BeneficiaryOptional(tool)
           \cup BeneficiaryDefaulted(tool) \cup { "email" } \cup ClassificationKeys
    ELSE BeneficiaryCopied(tool) \cup BeneficiaryOptional(tool)
           \cup BeneficiaryDefaulted(tool) \cup ClassificationKeys )
  \ SchemaRequired(tool)

\* the values of an added key: a falsy one (0, false) or a truthy one
SuppliedValues == { "0", "val" }

RECURSIVE SubsetsUpTo(_, _)
SubsetsUpTo(S, k) ==
  IF k = 0 THEN { {} }
  ELSE LET smaller == SubsetsUpTo(S, k - 1) IN
       smaller \cup { T \cup { x } : T \in smaller, x \in S }

\* arguments maps that hold every key the schema requires and up to
\* MaxSupplied further keys (a key left out reads as undefined)
RequestArgs(tool) ==
  UNION { { [ f \in SchemaRequired(tool) \cup SuppliableKeys(tool) |->
                IF f \in S THEN extra[f]
                ELSE IF f \in SchemaRequired(tool) THEN "val"
                ELSE "undefined" ] :
            extra \in [ S -> SuppliedValues ] } :
          S \in SubsetsUpTo(SuppliableKeys(tool), MaxSupplied) }

LimitValues == { -1, 0, 1, 10, 50, 51, 100 }
OffsetValues == { -1, 0, 20 }

\* arguments maps of get_movement_list: limit and offset, each present or not
MovementArgs ==
  { << >> }
    \cup { [ limit |-> l ] : l \in LimitValues }
    \cup { [ offset |-> o ] : o \in OffsetValues }
    \cup { [ limit |-> l, offset |-> o ] : l \in LimitValues, o \in OffsetValues }

RequestOutcomes == { "ok", "code400", "Error", "valueCircular" }

\* one invocation of any tool, with an arguments map that holds the keys its
\* schema requires and some optional ones, or with no arguments map
NextRequests ==
  \/ /\ inv[1].pc = "idle"
     /\ \E tool \in DestructuringTools :
          \E args \in RequestArgs(tool) : Invoke(1, tool, TRUE, args)
  \/ /\ inv[1].pc = "idle"
     /\ \E args \in MovementArgs : Invoke(1, "get_movement_list", TRUE, args)
  \/ /\ inv[1].pc = "idle"
     /\ \E tool \in Tools : Invoke(1, tool, FALSE, AbsentArgs(tool))
  \/ \E outcome \in RequestOutcomes : RemoteSettles(1, outcome)
  \/ inv[1].pc = "idle" /\ ReadStatus

SpecRequests == Init /\ [][NextRequests]_vars

(***************************************************************************)
(* The accounts listing.  An upstream account is modelled by the set of    *)
(* its keys that hold a value.                                             *)
(***************************************************************************)
\* the keys of the object literal cleanAccounts maps each account to
accountFields(tool) ==
  IF tool = "get_accounts_list"
  THEN { "id", "alias", "balance", "pendingIn", "pendingOut", "accountNumber",
         "currency", "type", "state", "isDefault" }
  ELSE { "id", "alias", "balance", "pendingIn", "pendingOut", "accountNumber",
         "currency", "type", "state", "isDefault", "createdAt", "updatedAt" }

\* the keys an account of the remote listing may carry
UpstreamKeys ==
  { "id", "alias", "balance", "pendingIn", "pendingOut", "accountNumber",
    "currency", "type", "state", "isDefault", "createdAt", "updatedAt",
    "userId", "services" }

\* accounts that carry every upstream key, or all but one
UpstreamAccounts == { UpstreamKeys \ D : D \in SubsetsUpTo(UpstreamKeys, 1) }

AccountListings == UNION { [ 1..n -> UpstreamAccounts ] : n \in 1..MaxAccounts }

\* JSON.stringify(cleanAccounts): a key whose value is undefined is left out
cleanAccounts(tool, accountsData) ==
  [ k \in 1..Len(accountsData) |-> accountFields(tool) \cap accountsData[k] ]

\* the awaited accounts.list() of invocation i returns a non-empty array
AccountsListed(i, accountsData) ==
  /\ inv[i].pc = "awaiting"
  /\ inv[i].tool \in AccountsTools
  /\ inv' = [ inv EXCEPT ![i].pc = "done", ![i].outcome = "ok",
                         ![i].resp = handlerResume(inv[i].tool, "ok"),
                         ![i].body = [ upstream |-> accountsData,
                                       json |-> cleanAccounts(inv[i].tool,
                                                              accountsData) ] ]
  /\ UNCHANGED <<tropiPayConfig, tropiPayClient, constructed, access, firstRet, reply>>

\* one invocation of the accounts tool, whose listing is empty, fails or
\* holds up to MaxAccounts accounts
NextAccounts ==
  \/ /\ inv[1].pc = "idle"
     /\ \E tool \in AccountsTools : Invoke(1, tool, FALSE, AbsentArgs(tool))
  \/ \E accountsData \in AccountListings : AccountsListed(1, accountsData)
  \/ \E outcome \in { "empty", "nullish", "Error" } : RemoteSettles(1, outcome)

SpecAccounts == Init /\ [][NextAccounts]_vars

\* the requests that are answered without a tool handler (resource reads,
\* prompt requests and call-tool requests with a name index.ts does not
\* know), served while a connection test may be in flight
NextDispatch ==
  \/ Invoke(1, "test_connection", FALSE, AbsentArgs("test_connection"))
  \/ \E outcome \in ConcurrentOutcomes : RemoteSettles(1, outcome)
  \/ \E server \in Servers, uri \in ResourceUris : ReadResource(server, uri)
  \/ \E server \in Servers, name \in PromptNames : GetPrompt(server, name)
  \/ \E name \in UnknownToolNames : CallUnknownTool(name)
  \/ \E name \in MonolithToolCases :
       \E args \in MonolithArgs(name), outcome \in ConcurrentOutcomes :
         CallMonolithTool(name, args, outcome)

SpecDispatch == Init /\ [][NextDispatch]_vars

\* the values the process environment can hold at start: any string for the
\* environment selector, client ids shorter and longer than eight characters
ConfigEnvs ==
  [ TROPIPAY_ENVIRONMENT   : EnvValues,
    TROPIPAY_BASE_URL      : {"undefined", "https://custom"},
    TROPIPAY_CLIENT_ID     : {"undefined", "", "idA", "abcdefgh1", "abcdefgh2"},
    TROPIPAY_CLIENT_SECRET : {"undefined", "", "secA", "secB"} ]

\* const tropiPayConfig = getTropiPayConfig() at module load
InitConfig ==
  /\ tropiPayConfig \in { getTropiPayConfig(e) : e \in ConfigEnvs }
  /\ tropiPayClient = NullClient
  /\ constructed = 0
  /\ access = NoAccess
  /\ firstRet = NullClient
  /\ inv = [ i \in Slots |-> IdleInv ]
  /\ reply = NoReply

SpecConfig == InitConfig /\ [][NextDispatch]_vars

(***************************************************************************)
(* Properties of the client accessor (checked under SpecClient)            *)
(***************************************************************************)
Configured(v) == v # "undefined" /\ v # ""

\* C1: every accessor call made with both clientId and clientSecret present
\* returns the very handle the first successful call returned.
C1_SingletonIdentity ==
  (access.called /\ Configured(access.config.clientId)
                 /\ Configured(access.config.clientSecret))
    => (~access.threw /\ access.ret.oid # 0 /\ access.ret = firstRet)

\* a later call, made with valid credentials on a filled slot, was answered
\* with the first handle although its own credentials differ from that handle's
C1_Witness ==
  /\ access.called /\ access.cached.oid # 0
  /\ Configured(access.config.clientId) /\ Configured(access.config.clientSecret)
  /\ access.config.clientId # firstRet.clientId
  /\ access.ret = firstRet

\* C2: with no handle cached and clientId or clientSecret undefined or empty,
\* the accessor throws the configuration error, returns no handle and leaves
\* the slot empty.
C2_MissingCredentialsFail ==
  (access.called /\ access.cached.oid = 0
     /\ ~(Configured(access.config.clientId) /\ Configured(access.config.clientSecret)))
    => (access.threw /\ access.ret = NullClient /\ tropiPayClient.oid = 0)

\* the accessor threw for a configuration that has a client id and an empty secret
C2_Witness ==
  /\ access.called /\ access.threw
  /\ access.config.clientId = "idA" /\ access.config.clientSecret = ""

\* C3: once a handle is cached, every call returns it and keeps it in the
\* slot, whatever configuration is passed, and raises no error.
C3_CachedHandleWins ==
  (access.called /\ access.cached.oid # 0)
    => (~access.threw /\ access.ret = access.cached /\ tropiPayClient = access.cached)

\* a call passing a configuration without credentials and with another base
\* URL than the cached handle's was answered with the cached handle
C3_Witness ==
  /\ access.called /\ access.cached.oid # 0 /\ ~access.threw
  /\ access.config.clientId = "undefined"
  /\ access.config.baseUrl = "https://custom"
  /\ access.cached.customTropipayUrl = "undefined"
  /\ access.ret = access.cached

\* C5: a constructed handle points at the custom base URL whenever one is
\* configured, and otherwise has server mode LIVE exactly for environment
\* 'production' and SANDBOX for any other environment.
C5_ConstructionRule ==
  (access.called /\ access.cached.oid = 0 /\ ~access.threw)
    => /\ access.ret.clientId = access.config.clientId
       /\ access.ret.clientSecret = access.config.clientSecret
       /\ IF Configured(access.config.baseUrl)
          THEN /\ access.ret.customTropipayUrl = access.config.baseUrl
               /\ access.ret.serverMode = "undefined"
          ELSE /\ access.ret.customTropipayUrl = "undefined"
               /\ access.ret.serverMode = "LIVE" <=> access.config.environment = "production"
               /\ access.ret.serverMode = "SANDBOX" <=> access.config.environment # "production"

\* a handle was constructed against the custom URL in a production environment
C5_Witness ==
  /\ access.called /\ access.cached.oid = 0 /\ ~access.threw
  /\ access.config.environment = "production"
  /\ access.config.baseUrl = "https://custom"
  /\ access.ret.customTropipayUrl = "https://custom"

(***************************************************************************)
(* Properties of the interleaved server (checked under Spec)               *)
(***************************************************************************)
\* C4: over every interleaving of tool invocations and status reads at most
\* one client object is ever constructed, and every invocation suspended on
\* a client operation uses the object stored in the singleton slot.
C4_ConstructedAtMostOnce ==
  /\ constructed <= 1
  /\ constructed = (IF tropiPayClient.oid = 0 THEN 0 ELSE 1)
  /\ \A i \in Slots :
       inv[i].calls > 0 => (inv[i].client # 0 /\ inv[i].client = tropiPayClient.oid)

\* two invocations are suspended on their client operations at once, both on
\* the one object constructed
C4_Witness ==
  /\ constructed = 1
  /\ \E i, j \in Slots :
       /\ i # j
       /\ inv[i].pc = "awaiting" /\ inv[j].pc = "awaiting"
       /\ inv[i].client = tropiPayClient.oid /\ inv[j].client = tropiPayClient.oid

(***************************************************************************)
(* Properties of a single tool invocation (checked under SpecHandlers)     *)
(***************************************************************************)
ToolsWithRequired == PaymentCardTools \cup BeneficiaryTools

Blank(v) == v \in { "undefined", "null", "", " " }
AbsentNullOrEmpty(v) == v \in { "undefined", "null", "" }
JsFalsy(v) == v \in { "undefined", "null", "", "0" }

\* the required fields of a tool, as groups of alternatives: a group is
\* satisfied by any one of its fields
RequiredGroups(tool) ==
  IF tool \in PaymentCardTools
  THEN { << requiredFields(tool)[k] >> : k \in 1..Len(requiredFields(tool)) }
  ELSE Range(requiredChecks(tool))

\* the groups none of whose fields has a value passing `missing`
GroupsMissing(tool, args, missing(_)) ==
  { g \in RequiredGroups(tool) : \A f \in Range(g) : missing(args[f]) }

IsFailure(i) ==
  /\ ~inv[i].resp.thrown
  /\ inv[i].resp.marker = "FAIL"
  /\ inv[i].resp.headline = FailureHeadline(inv[i].tool)

\* C6: no handler raises past its boundary: every finished invocation has
\* returned a text response.
C6_NoHandlerThrows ==
  \A i \in Slots :
    inv[i].pc = "done" =>
      (~inv[i].resp.thrown /\ inv[i].resp.marker \in { "FAIL", "OK", "INFO" })

C10_ValidationBeforeCall ==
  \A i \in Slots :
    /\ inv[i].resp.listed # << >> => inv[i].calls = 0
    /\ (inv[i].pc # "idle" /\ inv[i].hasArgs
          /\ \/ /\ inv[i].tool \in PaymentCardTools
                /\ GroupsMissing(inv[i].tool, inv[i].args, Blank) # {}
             \/ /\ inv[i].tool \in BeneficiaryTools
                /\ GroupsMissing(inv[i].tool, inv[i].args, JsFalsy) # {})
         => (inv[i].pc = "done" /\ inv[i].calls = 0)

\* create_external_beneficiary was given neither countryDestinationId nor
\* countryISO on a process that has its client: it was rejected without a call
C10_Witness ==
  \E i \in Slots :
    /\ inv[i].pc = "done" /\ inv[i].tool = "create_external_beneficiary"
    /\ inv[i].resp.listed = << "countryDestinationId", "countryISO" >>
    /\ inv[i].calls = 0
    /\ tropiPayClient.oid # 0

(***************************************************************************)
(* Properties of the request sent to the remote client (checked under      *)
(* SpecRequests)                                                           *)
(***************************************************************************)
\* the keys of an arguments map that hold a value
SuppliedKeys(args) == { f \in DOMAIN args : args[f] # "undefined" }

\* C11: create_paymentcard called with exactly concept, amount and currency
\* passes the required-field validation, forwards the three values unchanged
\* and issues one creation call (stated for a process that has its
\* credentials, so that the client accessor cannot be what stops the call).
C11_ThreeFieldsSuffice ==
  \A i \in Slots :
    (inv[i].pc # "idle" /\ inv[i].tool \in PaymentCardTools /\ inv[i].hasArgs
       /\ SuppliedKeys(inv[i].args) = { "concept", "amount", "currency" }
       /\ \A f \in SuppliedKeys(inv[i].args) : inv[i].args[f] = "val"
       /\ HasCredentials(tropiPayConfig))
      => /\ inv[i].resp.listed = << >>
         /\ inv[i].calls = 1
         /\ inv[i].request.op = "paymentCards.create"
         /\ \A f \in { "concept", "amount", "currency" } :
              inv[i].request.data[f] = inv[i].args[f]

\* the defaults the tool documents for the optional keys of a payment card
DocumentedDefault(f) ==
  CASE f \in { "singleUse", "favorite" } -> "false"
    [] f = "expirationDays" -> "0"
    [] f = "reasonId" -> "21"
    [] f = "lang" -> "es"
    [] f \in { "urlSuccess", "urlFailed", "urlNotification" } -> ""
    [] f = "serviceDate" -> "today"

DocumentedOptional ==
  { "singleUse", "favorite", "expirationDays", "reasonId", "lang", "urlSuccess",
    "urlFailed", "urlNotification", "serviceDate" }

\* the request of invocation i carries, for every documented optional key,
\* the caller's value when one was supplied and the documented default
\* otherwise
CarriesDefaults(i) ==
  \A f \in DocumentedOptional :
    inv[i].request.data[f] =
      IF inv[i].args[f] = "undefined" THEN DocumentedDefault(f) ELSE inv[i].args[f]

\* C12: the request create_paymentcard sends carries the documented default
\* for every optional key the caller left out and the caller's own value for
\* every optional key the caller supplied.
C12_DefaultsApplied ==
  \A i \in Slots :
    (inv[i].tool \in PaymentCardTools /\ inv[i].calls > 0) => CarriesDefaults(i)

\* C13: get_movement_list invoked with no arguments (none at all, or an empty
\* map) calls the movements operation of the client with limit 10 and
\* offset 0.
C13_MovementDefaults ==
  \A i \in Slots :
    (inv[i].pc # "idle" /\ inv[i].tool = "get_movement_list"
       /\ (~inv[i].hasArgs \/ DOMAIN inv[i].args = {})
       /\ tropiPayClient.oid # 0)
      => /\ inv[i].calls = 1
         /\ inv[i].request.op = "movements"
         /\ inv[i].request.data.limit = 10
         /\ inv[i].request.data.offset = 0

\* get_movement_list, given an empty arguments map, is suspended on
\* movements(10, 0)
C13_Witness ==
  \E i \in Slots :
    /\ inv[i].pc = "awaiting" /\ inv[i].tool = "get_movement_list"
    /\ inv[i].hasArgs /\ DOMAIN inv[i].args = {}
    /\ inv[i].request.data = [ limit |-> 10, offset |-> 0 ]

\* C14: the limit get_movement_list passes to the movements operation always
\* lies in 1..50, whatever limit the caller supplied.
C14_LimitClamped ==
  \A i \in Slots :
    (inv[i].tool = "get_movement_list" /\ inv[i].calls > 0)
      => inv[i].request.data.limit \in 1..50

\* the arguments of invocation i pass the required-field validation of its
\* handler (a handler without required fields has none to fail)
ValidationPasses(i) ==
  \/ inv[i].tool \notin ToolsWithRequired
  \/ /\ inv[i].hasArgs
     /\ IF inv[i].tool \in PaymentCardTools
        THEN GroupsMissing(inv[i].tool, inv[i].args, Blank) = {}
        ELSE GroupsMissing(inv[i].tool, inv[i].args, JsFalsy) = {}

C18_ClassificationFixed ==
  \A i \in Slots :
    (inv[i].tool \in BeneficiaryTools /\ inv[i].calls > 0) =>
      LET d == inv[i].request.data IN
      /\ inv[i].request.op = "depositAccounts.create"
      /\ inv[i].tool = "create_external_beneficiary"
           => (d["beneficiaryType"] = "2" /\ d["type"] = "7" /\ d["paymentType"] = "2")
      /\ inv[i].tool = "create_internal_beneficiary"
           => (d["beneficiaryType"] = "1" /\ d["type"] = "9")
      /\ inv[i].tool = "create_crypto_beneficiary"
           => (d["beneficiaryType"] = "3" /\ d["type"] = "12")

\* an external beneficiary was requested with a beneficiaryType of the
\* caller's in the arguments, and the payload sent carries 2
C18_Witness ==
  \E i \in Slots :
    /\ inv[i].tool = "create_external_beneficiary" /\ inv[i].pc = "awaiting"
    /\ inv[i].args["beneficiaryType"] = "val"
    /\ inv[i].request.data["beneficiaryType"] = "2"

\* C19: the payload create_crypto_beneficiary sends has paymentType 3.
C19_CryptoPaymentType ==
  \A i \in Slots :
    (inv[i].tool = "create_crypto_beneficiary" /\ inv[i].calls > 0)
      => Arg(inv[i].request.data, "paymentType") = "3"

\* C20: the beneficiary payload carries the caller's userRelationTypeId when
\* one is supplied (0 stays 0) and 3 only when none is supplied.
C20_RelationTypeForwarded ==
  \A i \in Slots :
    (inv[i].tool \in BeneficiaryTools /\ inv[i].calls > 0) =>
      /\ inv[i].args["userRelationTypeId"] \in { "0", "val" }
           => inv[i].request.data["userRelationTypeId"] = inv[i].args["userRelationTypeId"]
      /\ inv[i].args["userRelationTypeId"] = "undefined"
           => inv[i].request.data["userRelationTypeId"] = "3"

(***************************************************************************)
(* Properties of requests for unknown names (checked under SpecDispatch)   *)
(***************************************************************************)
\* C16 as claimed: a call-tool request whose name is no known tool is
\* answered, without an exception leaving the dispatcher, with the text
\* 'Unknown tool: <name>'.
C16_UnknownToolAnswered ==
  (reply.kind = "tool" /\ reply.name \notin MonolithToolCases) =>
    (~reply.thrown /\ reply.text = "Unknown tool")

\* C16 as amended: such a request is always answered with a text and never
\* raises; the text is 'Unknown tool: <name>' when the client handle can be
\* obtained and the credentials error when it cannot.
C16_Amended ==
  (reply.kind = "tool" /\ reply.name \notin MonolithToolCases) =>
    /\ ~reply.thrown
    /\ reply.text = IF tropiPayClient.oid # 0 THEN "Unknown tool"
                    ELSE "TropiPay credentials not configured"

\* the name of a tool that only the handler modules know was answered with
\* 'Unknown tool' by index.ts
C16_Witness ==
  /\ reply.kind = "tool" /\ reply.name = "list_paymentcards"
  /\ ~reply.thrown /\ reply.text = "Unknown tool"

\* C17: a read of an unknown resource and a request for an unknown prompt are
\* answered with a text response, not by an exception leaving the handler.
C17_UnknownNamesAnswered ==
  reply.kind \in { "resource", "prompt" } => ~reply.thrown

(***************************************************************************)
(* Properties of the accounts listing (checked under SpecAccounts)         *)
(***************************************************************************)
AllowListed ==
  { "id", "alias", "balance", "pendingIn", "pendingOut", "accountNumber",
    "currency", "type", "state", "isDefault", "createdAt", "updatedAt" }

\* C21: on a non-empty listing, each account of the JSON block carries
\* exactly the allow-listed keys (the ten fields and the two timestamps)
\* that the upstream account has, and no other upstream key.
C21_AllowListProjected ==
  \A i \in Slots :
    (inv[i].tool \in AccountsTools /\ inv[i].body # NoBody) =>
      /\ inv[i].resp.headline = "TropiPay Accounts Data"
      /\ Len(inv[i].body.json) = Len(inv[i].body.upstream)
      /\ \A k \in 1..Len(inv[i].body.json) :
           inv[i].body.json[k] = AllowListed \cap inv[i].body.upstream[k]

(***************************************************************************)
(* Properties of resource reads (checked under SpecDispatch)               *)
(***************************************************************************)
SixResources ==
  { "config", "status", "movement-types", "movement-states", "account-types",
    "account-states" }

\* C22: a read that selects one of the six resource identifiers returns a
\* JSON text document and is never rejected as an unknown resource; the
\* status document reports whether the client handle could be obtained.
C22_SixResourcesAnswered ==
  (reply.kind = "resource" /\ reply.name \in SixResources) =>
    /\ ~reply.thrown
    /\ reply.text = IF reply.name # "status" THEN "json"
                    ELSE IF tropiPayClient.oid # 0 THEN "json status connected"
                    ELSE "json status error"

(***************************************************************************)
(* Properties of the configuration record (checked under SpecConfig)       *)
(***************************************************************************)
\* C23: the configuration record always has an environment of the enum
\* {sandbox, production}, whatever the environment variable holds, and is a
\* record of the four fields whether or not credentials are set.
C23_EnvironmentInEnum ==
  /\ DOMAIN tropiPayConfig = { "environment", "baseUrl", "clientId", "clientSecret" }
  /\ tropiPayConfig.environment \in { "sandbox", "production" }

(***************************************************************************)
(* The frame of a request (checked under SpecDispatch)                     *)
(***************************************************************************)
\* C24: no request changes the configuration record; the singleton slot is
\* the only process state a request writes, and only by filling the empty
\* slot with the client built from the configuration; a prompt request
\* writes nothing at all.
C24_OnlySlotChanges ==
  [][ /\ tropiPayConfig' = tropiPayConfig
      /\ (tropiPayClient' # tropiPayClient =>
            /\ tropiPayClient = NullClient
            /\ tropiPayClient' = createTropiPayClient(tropiPayConfig, constructed + 1))
      /\ ((reply' # reply /\ reply'.kind = "prompt") =>
            tropiPayClient' = tropiPayClient) ]_vars

\* a status read filled the slot, and a later read of the configuration
\* resource found the configuration as it was at start
C24_Witness ==
  /\ reply.kind = "resource" /\ reply.name = "config" /\ ~reply.thrown
  /\ tropiPayClient.oid = 1 /\ constructed = 1
  /\ tropiPayConfig.baseUrl = "undefined"

(***************************************************************************)
(* Failed accesses are not memoized (checked under SpecClient)             *)
(***************************************************************************)
\* C25: an accessor call that fails leaves the slot empty; a call on the
\* empty slot fails again as long as its configuration lacks a credential,
\* earlier failures or not, and succeeds and fills the slot as soon as both
\* credentials are present.
C25_FailureNotMemoized ==
  access.called =>
    /\ access.threw =>
         /\ tropiPayClient = NullClient
         /\ access.cached = NullClient
         /\ ~HasCredentials(access.config)
    /\ (access.cached = NullClient /\ ~HasCredentials(access.config)) =>
         access.threw
    /\ (access.cached = NullClient /\ HasCredentials(access.config)) =>
         /\ ~access.threw
         /\ tropiPayClient = access.ret
         /\ tropiPayClient = createTropiPayClient(access.config, constructed)

\* after at least one failed call, a call with both credentials succeeded
\* on the still empty slot and filled it
C25_Witness ==
  /\ access.called /\ access.failedBefore /\ ~access.threw
  /\ access.cached = NullClient
  /\ tropiPayClient.oid = 1 /\ tropiPayClient = access.ret

(***************************************************************************)
(* Order of the dispatcher of index.ts (checked under SpecConfig)          *)
(***************************************************************************)
\* C26: when the configuration lacks a credential, every call-tool request
\* to index.ts, whatever its name and arguments, is answered with the
\* credentials error text, never with 'Unknown tool' or the missing-fields
\* response, and never raises.
C26_ClientBeforeDispatch ==
  (reply.kind = "tool" /\ ~HasCredentials(tropiPayConfig)) =>
    /\ ~reply.thrown
    /\ reply.text = "TropiPay credentials not configured"
    /\ tropiPayClient = NullClient

\* without credentials, a create_paymentcard call that lacks required
\* fields was answered with the credentials error
C26_Witness ==
  /\ reply.kind = "tool" /\ reply.name = "create_paymentcard"
  /\ reply.args.reference = "undefined" /\ reply.args.amount = "undefined"
  /\ tropiPayConfig.clientId = "idA" /\ tropiPayConfig.clientSecret = ""
  /\ reply.text = "TropiPay credentials not configured"

(***************************************************************************)
(* Advertised schemas against the validation of the handlers (checked      *)
(* under SpecRequests)                                                     *)
(***************************************************************************)
\* the tools of toolDefinitions: every handler but the two older copies
DefinedTools == Tools \ { "get_accounts_list_v1", "create_paymentcard_v1" }

\* C27: an invocation of a tool of toolDefinitions whose arguments hold a
\* non-blank value for every name of the tool's inputSchema.required is
\* not answered with a missing-required-field rejection.
C27_SchemaRequiredSuffices ==
  \A i \in Slots :
    (inv[i].pc # "idle" /\ inv[i].hasArgs /\ inv[i].tool \in DefinedTools
       /\ \A f \in SchemaRequired(inv[i].tool) : ~Blank(inv[i].args[f]))
      => inv[i].resp.listed = << >>

(***************************************************************************)
(* Advertised names against handled names in index.ts (checked under       *)
(* SpecDispatch)                                                           *)
(***************************************************************************)
\* C28: in index.ts the advertised tool names are the case labels of the
\* dispatcher and the advertised prompt names those of the prompt switch,
\* and no request for an advertised tool, resource URI or prompt is
\* answered with an unknown-name error.
C28_AdvertisedHandled ==
  /\ MonolithListedTools = MonolithToolCases
  /\ ListedPrompts("monolith") = PromptCases("monolith")
  /\ reply.server = "monolith" =>
       /\ (reply.kind = "tool" /\ reply.name \in MonolithListedTools) =>
            (~reply.thrown /\ reply.text # "Unknown tool")
       /\ (reply.kind = "prompt" /\ reply.name \in ListedPrompts("monolith")) =>
            ~reply.thrown
       /\ (reply.kind = "resource" /\ reply.uri \in ListedResourceUris("monolith")) =>
            ~reply.thrown

(***************************************************************************)
(* The configuration document (checked under SpecConfig)                   *)
(***************************************************************************)
\* the last request was a read that reached the config case of `server`
ConfigRead(server) ==
  /\ reply.kind = "resource" /\ reply.server = server
  /\ reply.name = "config" /\ ~reply.thrown

\* C29: the clientInitialized flag of a configuration document of index.ts
\* is true exactly when a client access has succeeded before the read; a
\* filled slot is never emptied or replaced, so the flag never returns to
\* false; and without credentials no access succeeds, so it stays false.
C29_FlagMonotonic ==
  /\ [][(reply' # reply /\ ConfigRead("monolith")') =>
          /\ reply'.doc.clientInitialized = (constructed > 0)
          /\ reply'.doc.clientInitialized = (tropiPayClient # NullClient)
          /\ UNCHANGED <<tropiPayClient, constructed>>]_vars
  /\ [][tropiPayClient # NullClient => tropiPayClient' = tropiPayClient]_vars
  /\ [](~HasCredentials(tropiPayConfig) =>
          (constructed = 0 /\ tropiPayClient = NullClient))

\* a configuration document of index.ts, read after a client access had
\* succeeded, reports the flag as true
C29_Witness ==
  /\ ConfigRead("monolith")
  /\ constructed = 1 /\ reply.doc.clientInitialized

\* the first eight characters of a client id
Prefix8(id) == SubSeq(id, 1, IF Len(id) < 8 THEN Len(id) ELSE 8)

\* the configurations that differ from c only in the value of a non-empty
\* client secret, or only in the characters of the client id after the eighth
SimilarConfigs(c) ==
  { o \in { getTropiPayConfig(e) : e \in ConfigEnvs } \ { c } :
      \/ /\ o = [ c EXCEPT !.clientSecret = o.clientSecret ]
         /\ Configured(c.clientSecret) /\ Configured(o.clientSecret)
      \/ /\ o = [ c EXCEPT !.clientId = o.clientId ]
         /\ Configured(c.clientId) /\ Configured(o.clientId)
         /\ Len(c.clientId) > 8 /\ Len(o.clientId) > 8
         /\ Prefix8(c.clientId) = Prefix8(o.clientId) }

\* C30: the configuration document a read returns is the document the same
\* read would have returned had the process been configured with another
\* non-empty client secret, or with a client id that differs only after its
\* eighth character: it shows nothing of the secret and no more than the
\* first eight characters of the id.
C30_SecretNotDisclosed ==
  [][ \A server \in Servers :
        (reply' # reply /\ ConfigRead(server)') =>
          \A other \in SimilarConfigs(tropiPayConfig) :
            configDocument(server, other, tropiPayClient) = reply'.doc ]_vars

\* a process configured with a nine-character client id and a secret
\* returned a configuration document that shows the eight-character prefix
C30_Witness ==
  /\ \E server \in Servers : ConfigRead(server)
  /\ tropiPayConfig.clientId = "abcdefgh1" /\ tropiPayConfig.clientSecret = "secA"
  /\ reply.doc.clientId = "abcdefgh..."
  /\ Cardinality(SimilarConfigs(tropiPayConfig)) = 2

====
